---- MODULE Spec2Model ----
(***************************************************************************)
(* Encrypted-search index builder of the mail application                  *)
(* (src/applications/mail/src/app/helpers/calendar/inviteApi.ts, lines     *)
(* 771-1266): initialiseDB, buildDB, storeMessagesBatches, storeMessages.  *)
(*                                                                         *)
(* Durable state: the local-storage items ES:<userID>:* and the            *)
(* 'messages' object store of the IndexedDB database ES:<userID>:DB.       *)
(* Volatile state: the position of the one buildDB call in progress and    *)
(* its locals.  Every await of the source is a position (pc) at which the  *)
(* cancellation token can be tripped and the page can be reloaded.         *)
(***************************************************************************)
EXTENDS Integers, Sequences, FiniteSets, TLC

\* ---------------------------------------------------------------- bounds
MaxTotal == 10                \* largest mailbox
PageSize == 3                 \* server-defined page size of the metadata query
ES_MAX_CONCURRENT == 2        \* tasks runInQueue keeps in flight
OPENPGP_REFRESH_CUTOFF == 2   \* batches between two refreshOpenpgp calls
MaxRuns == 2                  \* buildDB calls since the last fresh initialiseDB
MAX_SAFE_INTEGER == 1000000   \* stands for Number.MAX_SAFE_INTEGER
MINUTE == 60000               \* milliseconds, @proton/shared/lib/constants
MaxProgress == 3              \* largest esProgress, esTotal, esPrevProgress
MaxTicks == 2                 \* latest time sample
TimeStep == 40000             \* milliseconds between two time samples
MaxSubject == 4               \* longest subject, in characters
DELAY_PULLING == 5000         \* milliseconds between two status requests

\* ---------------------------------------------------------------- corpus
\* The mailbox on the server: messages 1..Total, each with a Time and an
\* Order.  "plain": all Times differ; "ties": two messages share each Time
\* and the Order, which runs against the IDs, tells them apart; "dup": the
\* two oldest messages share their (Time, Order) pair, which a server never
\* produces and the unique byTime index rejects.  In a "ties" mailbox every
\* third message is one the keys of the user do not decrypt.
Shapes == {"plain", "ties", "dup"}

Corpora == [Total : 0..MaxTotal, shape : Shapes]

VARIABLES
    corpus,             \* the mailbox, fixed during a behaviour
    ls,                 \* local storage: the ES:<userID>:* items
    db,                 \* "none" | "ready": the IndexedDB database and its store
    store,              \* IDs of the rows of the 'messages' object store
    plaintext,          \* what the ciphertext of each row decrypts to
    aborted,            \* abortControllerRef.current.signal.aborted
    pc,                 \* position of the buildDB call
    inputLastMessage,   \* storeMessagesBatches: the cursor it was given
    Messages,           \* storeMessagesBatches: the page being processed
    progress,           \* storeMessagesBatches: messages of checkpointed batches
    batchCount,         \* storeMessagesBatches: batches since the last refresh
    numMessagesBefore,  \* storeMessages: row count before the batch
    task,               \* storeMessages: state of each esIteratee of the page
    resultIndex,        \* runInQueue: tasks handed out so far
    messagesToStore,    \* storeMessages: ciphertexts, in completion order
    counter,            \* storeMessages: next value for recordLocalProgress
    recoveryPoint,      \* storeMessages: the recovery point it computed
    result,             \* what the last buildDB call returned
    hist,               \* observations of the run (history, read by no action)
    call                \* a call of getIndexKey or estimateIndexingTime

vars ==
    << corpus, ls, db, store, plaintext, aborted, pc, inputLastMessage,
       Messages, progress, batchCount, numMessagesBefore, task, resultIndex,
       messagesToStore, counter, recoveryPoint, result, hist, call >>

IDs == 1..corpus.Total

TimeOf(id) ==
    CASE corpus.shape = "plain" -> id
      [] corpus.shape = "ties"  -> (id + 1) \div 2
      [] corpus.shape = "dup"   -> IF id = 1 THEN 2 ELSE id

OrderOf(id) ==
    CASE corpus.shape = "plain" -> id
      [] corpus.shape = "ties"  -> corpus.Total + 1 - id
      [] corpus.shape = "dup"   -> IF id = 1 THEN 2 ELSE id

\* decryptMessage reports errors, or getMessageKeys throws, for this message
Undecryptable(id) == corpus.shape = "ties" /\ id % 3 = 0

\* ---------------------------------------------------------------- server
\* a is listed before b by the server: newest first, by (Time, Order); the
\* ID breaks the tie of two messages sharing the pair.
Before(a, b) ==
    \/ TimeOf(a) > TimeOf(b)
    \/ TimeOf(a) = TimeOf(b) /\ OrderOf(a) > OrderOf(b)
    \/ TimeOf(a) = TimeOf(b) /\ OrderOf(a) = OrderOf(b) /\ a > b

NoCursor == [EndID |-> 0, End |-> 0]

\* The messages a metadata query with { EndID, End } can return: those
\* strictly older than the cursor.
StrictlyOlder(m, cursor) ==
    \/ TimeOf(m) < cursor.End
    \/ /\ TimeOf(m) = cursor.End
       /\ cursor.EndID \in IDs
       /\ Before(cursor.EndID, m)

Eligible(cursor) ==
    IF cursor = NoCursor THEN IDs ELSE {m \in IDs : StrictlyOlder(m, cursor)}

Rank(m, E) == Cardinality({x \in E : Before(x, m)})

Min(a, b) == IF a < b THEN a ELSE b

\* queryMessagesMetadata, when it answers: the next page, newest first.
queryMessagesMetadata(cursor) ==
    LET E == Eligible(cursor)
    IN  [k \in 1..Min(PageSize, Cardinality(E)) |->
            CHOOSE m \in E : Rank(m, E) = k - 1]

\* queryMessagesCount: the most recent message of the mailbox.
firstMessage == CHOOSE m \in IDs : Rank(m, IDs) = 0

\* --------------------------------------------------------- local storage
\* An item is the sequence of the values of its JSON text; the absent item
\* and the empty string are both <<>>, which `if (recoverBlob)` takes alike.
NoItem == << >>

NoStorage ==
    [Recover |-> NoItem, Event |-> NoItem, BuildProgress |-> NoItem,
     Key |-> NoItem, SizeIDB |-> NoItem]

\* JSON.stringify(recoveryPoint) and JSON.parse(recoverBlob)
Stringify(rp) == << rp.ID, rp.Time >>
Parse(blob) == [ID |-> blob[1], Time |-> blob[2]]

\* Faulty variant of CursorOf: the cursor carries End but no EndID.
CursorWithoutEndID(opt) ==
    IF opt = << >>
        THEN NoCursor
        ELSE [EndID |-> 0, End |-> opt[1].Time]

\* An optional recovery point is << >> (undefined) or << rp >>.  The cursor
\* storeMessagesBatches passes: { EndID: rp?.ID, End: rp?.Time }.
Undefined == << >>

CursorOf(opt) ==
    IF opt = Undefined
        THEN NoCursor
        ELSE [EndID |-> opt[1].ID, End |-> opt[1].Time]

\* updateSizeIDB(userID, batchSize): the item grows by the size of the batch
updateSizeIDB(ls0, batchSize) ==
    IF ls0.SizeIDB = NoItem
        THEN [ls0 EXCEPT !.SizeIDB = << batchSize >>]
        ELSE [ls0 EXCEPT !.SizeIDB = << @[1] + batchSize >>]

\* ------------------------------------------------------------- initial state
\* What the properties need to know of the past:
\*   runs           buildDB calls since the last fresh initialiseDB
\*   why            how the last buildDB call ended
\*   batch          storeMessages calls of the current run
\*   pageLen        messages of the page of the current batch
\*   rpBefore       the Recover item when the current batch started
\*   storeBefore    the rows when the current batch started
\*   trippedAt      where the token was tripped in the current run
\*   fetchTripped   the token was tripped while the tasks of a batch ran
\*   recorded       the last value passed to recordProgress in the current run
\*   netAfterAbort  a request was made with the token tripped
\*   faults         a request, the cipher or the storage failed
\*   crash          where a reload interrupted a run
\*   cancelled      a run returned false with the token tripped
\*   quotaAt        the batch that met the quota error in the current run
\*   initOutcome    how the last initialiseDB call ended
\*   lost           a message of the current batch could not be retrieved
\*   initReturned   what the last initialiseDB call returned
NoHist ==
    [runs |-> 0, why |-> "none", batch |-> 0, pageLen |-> 0,
     rpBefore |-> NoItem, storeBefore |-> {}, trippedAt |-> "no",
     fetchTripped |-> FALSE, recorded |-> 0,
     netAfterAbort |-> FALSE, faults |-> FALSE,
     crash |-> "no", cancelled |-> FALSE,
     quotaAt |-> 0, initOutcome |-> "none", lost |-> FALSE,
     initReturned |-> [notSupported |-> FALSE, indexKey |-> << >>]]

\* the object store without a row
NoRows == [id \in {} |-> << >>]

\* no call of getIndexKey or estimateIndexingTime is under way
NoCall == [fn |-> "none"]

NoLocals ==
    /\ inputLastMessage = Undefined
    /\ Messages = << >>
    /\ progress = 0
    /\ batchCount = 0
    /\ numMessagesBefore = 0
    /\ task = << >>
    /\ resultIndex = 0
    /\ messagesToStore = << >>
    /\ counter = 1
    /\ recoveryPoint = [ID |-> 0, Time |-> MAX_SAFE_INTEGER]

InitWith(C) ==
    /\ corpus \in C
    /\ ls = NoStorage
    /\ db = "none"
    /\ store = {}
    /\ plaintext = NoRows
    /\ aborted = FALSE
    /\ pc = "idle"
    /\ NoLocals
    /\ result = "none"
    /\ hist = NoHist
    /\ call = NoCall

\* a mailbox as the server keeps it: no two messages share an Order
Init == InitWith({c \in Corpora : c.shape # "dup"})

\* ------------------------------------------------------------- initialiseDB
\* The ways initialiseDB can end: deleteDB throws (line 1165), the message
\* count is undefined (1172), no event is returned (1190), openDB throws
\* (1205), crypto.subtle.generateKey is not there or throws (1219), exporting
\* or wrapping the key under the user key throws (1220-1227), or all is well.
InitOutcomes ==
    {"deleteThrows", "countFails", "eventFails", "openFails", "keyGenFails",
     "keyWrapFails", "ok"}

RemoveMarkers(ls0) ==
    [ls0 EXCEPT !.Recover = NoItem, !.Event = NoItem, !.BuildProgress = NoItem]

\* The local storage initialiseDB leaves for each way it can end.
initialiseDBStorage(outcome) ==
    LET firstRecoveryPoint ==
            [ID |-> firstMessage, Time |-> TimeOf(firstMessage) + 1]
        counted ==
            IF corpus.Total # 0
                THEN [ls EXCEPT !.Recover = Stringify(firstRecoveryPoint)]
                ELSE ls
        marked ==
            [counted EXCEPT !.BuildProgress = << corpus.Total >>,
                            !.Event = << "EventID" >>]
    IN  CASE outcome = "deleteThrows" -> ls
          [] outcome = "countFails"   -> ls
          [] outcome = "eventFails"   -> [counted EXCEPT !.Recover = NoItem]
          [] outcome = "openFails"    -> RemoveMarkers(marked)
          [] outcome = "keyGenFails"  -> RemoveMarkers(marked)
          [] outcome = "keyWrapFails" -> RemoveMarkers(marked)
          [] outcome = "ok"           ->
                [marked EXCEPT !.Key = << "encryptedKey" >>, !.SizeIDB = << 0 >>]

\* Faulty variant of initialiseDBResult: a failing openDB is not reported.
initialiseDBResultNeverUnsupported(outcome) ==
    [notSupported |-> FALSE,
     indexKey |-> IF outcome = "ok" THEN << "indexKey" >> ELSE << >>]

\* What initialiseDB returns: { notSupported, indexKey }.  notSupported is
\* set by the catch of openDB alone (lines 1209-1212), indexKey on the last
\* line alone.
initialiseDBResult(outcome) ==
    [notSupported |-> outcome = "openFails",
     indexKey |-> IF outcome = "ok" THEN << "indexKey" >> ELSE Undefined]

\* initialiseDB, from call to return.  deleted = FALSE is deleteDB rejecting,
\* which .catch(() => undefined) swallows: the old database stays, and
\* openDB(name, 1) then opens it without running upgrade.  A rejected
\* deleteDB is followed for a database that holds no row yet (one a failed
\* initialiseDB left behind, or one whose first batch was never committed).
initialiseDB(outcome, deleted) ==
    /\ pc = "idle"
    /\ deleted \/ (db = "ready" /\ store = {})
    /\ LET gone == deleted /\ outcome # "deleteThrows"
           opened == outcome \in {"keyGenFails", "keyWrapFails", "ok"}
       IN  /\ db' = IF opened THEN "ready" ELSE IF gone THEN "none" ELSE db
           /\ store' = IF gone THEN {} ELSE store
           /\ plaintext' = IF gone THEN NoRows ELSE plaintext
           /\ ls' = initialiseDBStorage(outcome)
           /\ hist' = IF outcome = "ok" /\ deleted
                         THEN [NoHist EXCEPT !.initOutcome = outcome,
                                             !.initReturned =
                                                initialiseDBResult(outcome)]
                         ELSE [hist EXCEPT !.initOutcome = outcome,
                                           !.initReturned =
                                                initialiseDBResult(outcome),
                                           !.faults = TRUE,
                                           !.why = "none", !.batch = 0,
                                           !.pageLen = 0,
                                           !.rpBefore = NoItem,
                                           !.storeBefore = {},
                                           !.trippedAt = "no",
                                           !.fetchTripped = FALSE,
                                           !.recorded = 0,
                                           !.quotaAt = 0,
                                           !.lost = FALSE]
    /\ result' = "none"
    /\ UNCHANGED << call, corpus, aborted, pc, inputLastMessage, Messages,
                    progress, batchCount, numMessagesBefore, task, resultIndex,
                    messagesToStore, counter, recoveryPoint >>

\* ------------------------------------------------------------------ buildDB
\* The locals of a storeMessages call before it starts and after it ended.
NoBatchLocals ==
    /\ numMessagesBefore' = 0
    /\ task' = << >>
    /\ resultIndex' = 0
    /\ messagesToStore' = << >>
    /\ counter' = 1

\* buildDB returns `success`: the Recover item is removed on success, the
\* database is closed and the locals of the call are gone.  Shared by every
\* return path of storeMessagesBatches.
Return(success, why, ls0, h) ==
    /\ ls' = IF success THEN [ls0 EXCEPT !.Recover = NoItem] ELSE ls0
    /\ pc' = "done"
    /\ result' = IF success THEN "true" ELSE "false"
    /\ hist' = [h EXCEPT !.why = why, !.recorded = 0,
                         !.cancelled = @ \/ (~success /\ aborted)]
    /\ inputLastMessage' = Undefined
    /\ Messages' = << >>
    /\ progress' = 0
    /\ batchCount' = 0
    /\ recoveryPoint' = [ID |-> 0, Time |-> MAX_SAFE_INTEGER]
    /\ NoBatchLocals

\* The head of the while loop of storeMessagesBatches: an empty page ends
\* the run, any other page goes to storeMessages, whose first await is
\* esDB.count('messages').
LoopHead(msgs, bc, h) ==
    IF Len(msgs) = 0
        THEN Return(TRUE, "exhausted", ls, h)
        ELSE /\ pc' = "count"
             /\ Messages' = msgs
             /\ batchCount' = bc
             /\ hist' = [h EXCEPT !.batch = @ + 1,
                                  !.pageLen = Len(msgs),
                                  !.rpBefore = ls.Recover,
                                  !.storeBefore = store]
             /\ NoBatchLocals
             /\ UNCHANGED << ls, result, inputLastMessage, progress,
                             recoveryPoint >>

\* Faulty variant of ReadRecoveryPoint: the Recover item is not read.
IgnoreRecoverItem(recoverBlob) == << >>

\* lines 1121-1126: the recovery point of the Recover item, if there is one
ReadRecoveryPoint(recoverBlob) ==
    IF recoverBlob # NoItem THEN << Parse(recoverBlob) >> ELSE Undefined

\* buildDB is called: it reads the Recover item and awaits openDB.  The
\* caller calls it after an initialiseDB that returned an index key, and
\* calls again only a run that did not succeed.
buildDB ==
    /\ pc = "idle" \/ (pc = "done" /\ result = "false")
    /\ hist.initOutcome = "ok"
    /\ db = "ready"
    /\ ls.Key # NoItem
    /\ hist.runs < MaxRuns
    /\ inputLastMessage' = ReadRecoveryPoint(ls.Recover)
    /\ pc' = "open"
    /\ result' = "none"
    /\ hist' = [hist EXCEPT !.runs = @ + 1, !.why = "none", !.batch = 0,
                            !.pageLen = 0,
                            !.rpBefore = ls.Recover, !.storeBefore = store,
                            !.trippedAt = IF aborted THEN "before" ELSE "no",
                            !.fetchTripped = FALSE, !.recorded = 0,
                            !.quotaAt = 0, !.lost = FALSE]
    /\ UNCHANGED << call, plaintext, corpus, ls, db, store, aborted, Messages, progress,
                    batchCount, numMessagesBefore, task, resultIndex,
                    messagesToStore, counter, recoveryPoint >>

\* Faulty variant of FirstQueryFailed: the Recover item is removed.
FirstQueryFailedDropsCursor(h) ==
    Return(FALSE, "metaFailed", [ls EXCEPT !.Recover = NoItem], h)

\* The first metadata query failed: the cursor is written back and the run
\* ends with false (lines 1037-1042).
FirstQueryFailed(h) ==
    Return(FALSE, "metaFailed",
           IF inputLastMessage # Undefined
               THEN [ls EXCEPT !.Recover = Stringify(inputLastMessage[1])]
               ELSE ls,
           h)

\* openDB resolved: storeMessagesBatches sends the first metadata query.
\* With the token already tripped the request is not sent and the query
\* yields undefined.
OpenDone ==
    /\ pc = "open"
    /\ IF aborted
          THEN FirstQueryFailed(hist)
          ELSE /\ pc' = "query"
               /\ UNCHANGED << ls, result, hist, inputLastMessage, Messages,
                               progress, batchCount, numMessagesBefore, task,
                               resultIndex, messagesToStore, counter,
                               recoveryPoint >>
    /\ UNCHANGED << call, plaintext, corpus, db, store, aborted >>

\* The first metadata query answers: a page, or undefined (the request
\* failed, or it was abandoned because the token was tripped meanwhile).
FirstQueryDone(answered) ==
    /\ pc = "query"
    /\ IF answered
          THEN LoopHead(queryMessagesMetadata(CursorOf(inputLastMessage)),
                        0, hist)
          ELSE FirstQueryFailed([hist EXCEPT !.faults = @ \/ ~aborted])
    /\ UNCHANGED << call, plaintext, corpus, db, store, aborted >>

\* ------------------------------------------------- fetchMessage, encryptToDB
\* Faulty variant of fetchMessage: a message that cannot be decrypted yields
\* no CachedMessage.
fetchMessageStrict(messageID, answered) ==
    IF ~answered \/ Undecryptable(messageID)
        THEN << >>
        ELSE << [ID |-> messageID, Time |-> TimeOf(messageID),
                 Order |-> OrderOf(messageID),
                 decryptedBody |-> << "text" >>, decryptionError |-> FALSE] >>

\* fetchMessage (lines 904-940): undefined when queryMessage yields no
\* message; otherwise the CachedMessage, whose body is undefined and whose
\* decryptionError is true when the message could not be decrypted.
fetchMessage(messageID, answered) ==
    IF ~answered
        THEN Undefined
        ELSE << [ID |-> messageID, Time |-> TimeOf(messageID),
                 Order |-> OrderOf(messageID),
                 decryptedBody |-> IF Undecryptable(messageID)
                                      THEN Undefined ELSE << "text" >>,
                 decryptionError |-> Undecryptable(messageID)] >>

\* encryptToDB (lines 861-891): the StoredCiphertext, or undefined when the
\* cipher throws.  The ciphertext is opaque; it is kept as the plaintext
\* that decrypting it with the index key gives back.
encryptToDB(messageToCache, encrypts) ==
    IF encrypts
        THEN << [ID |-> messageToCache.ID, Time |-> messageToCache.Time,
                 Order |-> messageToCache.Order,
                 aesGcmCiphertext |->
                    [decryptedBody |-> messageToCache.decryptedBody,
                     decryptionError |-> messageToCache.decryptionError]] >>
        ELSE Undefined

\* ------------------------------------------------------------ storeMessages
\* Faulty variant of esIterateeAborts: the task does not look at the token.
esIterateeUnchecked == FALSE

\* esIteratee, line 960: a task that starts with the token tripped throws
\* 'Operation aborted' before it asks for its message.
esIterateeAborts == aborted

\* Faulty variant of CatchStoreError: every error is taken for the quota
\* error.
CatchAllAsQuota(errorName) ==
    << [recoveryPoint |-> [ID |-> 0, Time |-> 0 - 1], batchSize |-> 0] >>

\* Faulty variant of CatchStoreError: the quota error is not told apart.
CatchNothing(errorName) == << >>

\* .catch of the storeMessages call, lines 1060-1068: a QuotaExceededError
\* becomes the quota recovery point, any other error undefined.
quotaRecoveryPoint == [ID |-> 0, Time |-> 0 - 1]

CatchStoreError(errorName) ==
    IF errorName = "QuotaExceededError"
        THEN << [recoveryPoint |-> quotaRecoveryPoint, batchSize |-> 0] >>
        ELSE Undefined

\* Faulty variant of StoreFailedOrAborted: the token is not looked at.
NoAbortCheck(storeOutput) == storeOutput = << >>

\* line 1070: no output, or the token is tripped
StoreFailedOrAborted(storeOutput) == storeOutput = Undefined \/ aborted

\* line 1075: the output is the quota recovery point
IsQuotaStop(rp) == rp.ID = 0 /\ rp.Time = 0 - 1

\* Faulty variant of WriteCheckpoint: the Recover item is left as it is.
SkipCheckpoint(ls0, rp) == ls0

\* line 1082: setItem(`ES:${userID}:Recover`, JSON.stringify(recoveryPoint))
WriteCheckpoint(ls0, rp) == [ls0 EXCEPT !.Recover = Stringify(rp)]

\* storeMessagesBatches after storeMessages settled, lines 1070-1093: return
\* false, return true on the quota stop, or write the checkpoint, add to the
\* progress and send the query for the next page.
AfterStore(storeOutput, why, h) ==
    IF StoreFailedOrAborted(storeOutput)
        THEN Return(FALSE, IF storeOutput = Undefined THEN why ELSE "aborted",
                    ls, h)
    ELSE IF IsQuotaStop(storeOutput[1].recoveryPoint)
        THEN Return(TRUE, "quota", ls, h)
    ELSE /\ ls' = updateSizeIDB(
                    WriteCheckpoint(ls, storeOutput[1].recoveryPoint),
                    storeOutput[1].batchSize)
         /\ progress' = progress + Len(Messages)
         /\ recoveryPoint' = storeOutput[1].recoveryPoint
         /\ pc' = "queryNext"
         /\ hist' = [h EXCEPT !.netAfterAbort = @ \/ aborted]
         /\ NoBatchLocals
         /\ UNCHANGED << result, inputLastMessage, Messages, batchCount >>

\* Faulty variant of IsOlder: the Order is not looked at.
IsOlderByTimeOnly(c, acc) == c.Time < acc.Time

\* Faulty variant of IsOlder: the comparison is reversed.
IsNewer(c, acc) ==
    \/ c.Time > acc.Time
    \/ c.Time = acc.Time /\ c.Order > acc.Order

\* The minimum of lines 986-1000, taken over the ciphertexts in the order of
\* messagesToStore; acc carries recoveryPoint and recoveryOrder.
IsOlder(c, acc) ==
    \/ c.Time < acc.Time
    \/ c.Time = acc.Time /\ c.Order < acc.Order

RECURSIVE FoldRecovery(_, _, _)
FoldRecovery(seq, k, acc) ==
    IF k > Len(seq)
        THEN [ID |-> acc.ID, Time |-> acc.Time]
        ELSE FoldRecovery(seq, k + 1,
                IF IsOlder(seq[k], acc)
                    THEN [ID |-> seq[k].ID, Time |-> seq[k].Time,
                          Order |-> seq[k].Order]
                    ELSE acc)

ComputeRecoveryPoint(seq) ==
    FoldRecovery(seq, 1,
        [ID |-> 0, Time |-> MAX_SAFE_INTEGER, Order |-> MAX_SAFE_INTEGER])

\* Faulty variant of maxProcessing: the queue is as wide as the page.
maxProcessingUnbounded == MAX_SAFE_INTEGER

\* lines 981-984: the second argument of runInQueue
maxProcessing == ES_MAX_CONCURRENT

\* runInQueue hands out the tasks in order, at most maxProcessing at a time;
\* the first rejection rejects the whole queue.
FirstTasks(n) == Min(n, maxProcessing)

\* esDB.count resolved (line 954); runInQueue starts the first tasks, each
\* of which checks the token and asks for its message.
CountBefore ==
    /\ pc = "count"
    /\ IF esIterateeAborts
          THEN AfterStore(CatchStoreError("Error"), "aborted", hist)
          ELSE /\ numMessagesBefore' = Cardinality(store)
               /\ task' = [i \in 1..Len(Messages) |->
                             IF i <= FirstTasks(Len(Messages))
                                 THEN "running" ELSE "queued"]
               /\ resultIndex' = FirstTasks(Len(Messages))
               /\ pc' = "queue"
               /\ hist' = [hist EXCEPT !.netAfterAbort = @ \/ aborted]
               /\ UNCHANGED << ls, result, inputLastMessage, Messages,
                               progress, batchCount, recoveryPoint,
                               messagesToStore, counter >>
    /\ UNCHANGED << call, plaintext, corpus, db, store, aborted >>

\* Faulty variant of recordLocalProgress: the progress of the earlier
\* batches is left out.
recordLocalProgressOnly(inloopProgress, localProgress) == localProgress

\* lines 1047-1050: the value recordLocalProgress passes to recordProgress
recordLocalProgress(inloopProgress, localProgress) ==
    inloopProgress + localProgress

\* One esIteratee settles.  "noMessage": fetchMessage yielded undefined (the
\* request failed or was abandoned on the tripped token); "noCiphertext":
\* encryptToDB yielded undefined; both throw.  "ok": the ciphertext is
\* pushed, the progress recorded with recordLocalProgress(counter++), and runInQueue starts the next task, if
\* any; when the last task settles the puts are issued in one transaction.
TaskOutcomes == {"ok", "noMessage", "noCiphertext"}

TaskDone(i, outcome) ==
    /\ pc = "queue"
    /\ i \in DOMAIN task
    /\ task[i] = "running"
    /\ LET n == Len(Messages)
           messageToCache == fetchMessage(Messages[i], outcome # "noMessage")
           newCiphertextToStore ==
               IF messageToCache = Undefined
                   THEN Undefined
                   ELSE encryptToDB(messageToCache[1], outcome # "noCiphertext")
           pushed == messagesToStore \o newCiphertextToStore
           recorded == recordLocalProgress(progress, counter)
           settled == [task EXCEPT ![i] = "done"]
       IN  IF messageToCache = Undefined
               THEN AfterStore(CatchStoreError("Error"), "noPlaintext",
                        [hist EXCEPT !.faults = @ \/ (outcome # "ok" /\ ~aborted),
                                     !.lost = @ \/ outcome = "noMessage"])
           ELSE IF newCiphertextToStore = Undefined
               THEN AfterStore(CatchStoreError("Error"), "noCiphertext",
                        [hist EXCEPT !.faults = TRUE])
           ELSE IF resultIndex < n /\ esIterateeAborts
               THEN AfterStore(CatchStoreError("Error"), "aborted", hist)
           ELSE /\ messagesToStore' = pushed
                /\ counter' = counter + 1
                /\ IF resultIndex < n
                      THEN /\ task' = [settled EXCEPT ![resultIndex + 1] = "running"]
                           /\ resultIndex' = resultIndex + 1
                           /\ hist' = [hist EXCEPT
                                        !.netAfterAbort = @ \/ aborted,
                                        !.recorded = recorded]
                           /\ UNCHANGED << pc, recoveryPoint >>
                      ELSE /\ task' = settled
                           /\ resultIndex' = resultIndex
                           /\ hist' = [hist EXCEPT !.recorded = recorded]
                           /\ IF \A j \in DOMAIN settled : settled[j] = "done"
                                 THEN /\ pc' = "tx"
                                      /\ recoveryPoint' = ComputeRecoveryPoint(pushed)
                                 ELSE UNCHANGED << pc, recoveryPoint >>
                /\ UNCHANGED << ls, result, inputLastMessage, Messages,
                                progress, batchCount, numMessagesBefore >>
    /\ UNCHANGED << call, plaintext, corpus, db, store, aborted >>

\* two records with the same key in the index byTime
SamePair(a, b) == TimeOf(a) = TimeOf(b) /\ OrderOf(a) = OrderOf(b)

\* Faulty variant of UniqueViolation: the index is not unique.
NoUniqueIndex(batch, rows) == FALSE

\* The unique index byTime on [Time, Order] (lines 1200-1202): a put whose
\* pair is held by a row of another ID fails with a ConstraintError.
UniqueViolation(batch, rows) ==
    \E a \in batch : \E b \in rows \cup batch : a # b /\ SamePair(a, b)

Range(seq) == {seq[k] : k \in DOMAIN seq}

\* tx.done settles (line 1002).  The puts of the transaction take effect
\* together or not at all: a ConstraintError or a QuotaExceededError aborts
\* the transaction and rejects tx.done, and put replaces the row of an ID
\* already stored.
TxOutcomes == {"complete", "QuotaExceededError"}

\* the row of each ID after the puts of the batch: put replaces a row
PutAll(rows, batch) ==
    [id \in DOMAIN rows \cup {c.ID : c \in batch} |->
        IF \E c \in batch : c.ID = id
            THEN (CHOOSE c \in batch : c.ID = id).aesGcmCiphertext
            ELSE rows[id]]

TxDone(outcome) ==
    /\ pc = "tx"
    /\ LET batch == Range(messagesToStore)
           batchIDs == {c.ID : c \in batch}
       IN  IF outcome = "QuotaExceededError"
              THEN /\ store' = store
                   /\ plaintext' = plaintext
                   /\ AfterStore(CatchStoreError(outcome), "batchFailed",
                          [hist EXCEPT !.faults = TRUE, !.quotaAt = hist.batch])
           ELSE IF UniqueViolation(batchIDs, store)
              THEN /\ store' = store
                   /\ plaintext' = plaintext
                   /\ AfterStore(CatchStoreError("ConstraintError"),
                                 "constraintError", hist)
           ELSE /\ store' = store \cup batchIDs
                /\ plaintext' = PutAll(plaintext, batch)
                /\ pc' = "countAfter"
                /\ UNCHANGED << ls, result, hist, inputLastMessage, Messages,
                                progress, batchCount, numMessagesBefore, task,
                                resultIndex, messagesToStore, counter,
                                recoveryPoint >>
    /\ UNCHANGED << call, corpus, db, aborted >>

\* Faulty variant of CountMismatch: the counts are not compared.
CountUnchecked(before, pageLength, after) == FALSE

\* line 1005: the rows added are not as many as the page has messages
CountMismatch(before, pageLength, after) == before + pageLength # after

\* esDB.count resolved (line 1004): storeMessages throws on a mismatch or
\* returns its recovery point and the size of the batch.
CountAfter ==
    /\ pc = "countAfter"
    /\ IF CountMismatch(numMessagesBefore, Len(Messages), Cardinality(store))
          THEN AfterStore(CatchStoreError("Error"), "countMismatch", hist)
          ELSE AfterStore(<< [recoveryPoint |-> recoveryPoint,
                              batchSize |-> Len(messagesToStore)] >>,
                          "batchFailed", hist)
    /\ UNCHANGED << call, plaintext, corpus, db, store, aborted >>

\* The query for the next page answers (lines 1086-1104): undefined ends the
\* run with false; after a page, refreshOpenpgp is awaited when batchCount
\* has reached the cutoff.
NextQueryDone(answered) ==
    /\ pc = "queryNext"
    /\ IF ~answered
          THEN Return(FALSE, "metaFailed", ls,
                      [hist EXCEPT !.faults = @ \/ ~aborted])
       ELSE IF batchCount >= OPENPGP_REFRESH_CUTOFF
          THEN /\ pc' = "refresh"
               /\ Messages' = queryMessagesMetadata(CursorOf(<< recoveryPoint >>))
               /\ batchCount' = batchCount + 1
               /\ UNCHANGED << ls, result, hist, inputLastMessage, progress,
                               recoveryPoint, numMessagesBefore, task,
                               resultIndex, messagesToStore, counter >>
       ELSE LoopHead(queryMessagesMetadata(CursorOf(<< recoveryPoint >>)),
                     batchCount + 1, hist)
    /\ UNCHANGED << call, plaintext, corpus, db, store, aborted >>

\* refreshOpenpgp resolved (lines 1102-1103)
RefreshDone ==
    /\ pc = "refresh"
    /\ LoopHead(Messages, 0, hist)
    /\ UNCHANGED << call, plaintext, corpus, db, store, aborted >>

\* -------------------------------------------------------------- environment
Running == pc \notin {"idle", "done"}

\* abortControllerRef.current.abort(), at any await of the run
TripToken ==
    /\ Running
    /\ ~aborted
    /\ aborted' = TRUE
    /\ hist' = [hist EXCEPT !.trippedAt =
                    IF pc \in {"count", "queue", "tx", "countAfter"}
                        THEN "batch" ELSE "between",
                    !.fetchTripped = pc \in {"count", "queue"}]
    /\ UNCHANGED << call, plaintext, corpus, ls, db, store, pc, inputLastMessage, Messages,
                    progress, batchCount, numMessagesBefore, task,
                    resultIndex, messagesToStore, counter, recoveryPoint,
                    result >>

\* the caller installs a fresh AbortController before it calls again
NewToken ==
    /\ pc = "done"
    /\ aborted
    /\ aborted' = FALSE
    /\ UNCHANGED << call, plaintext, corpus, ls, db, store, pc, inputLastMessage, Messages,
                    progress, batchCount, numMessagesBefore, task,
                    resultIndex, messagesToStore, counter, recoveryPoint,
                    result, hist >>

\* The page is reloaded (or the browser crashes) at an await of the run:
\* local storage and the committed rows stay, everything else is gone.  A
\* transaction that has not completed leaves no row.
Crash ==
    /\ Running
    /\ pc' = "idle"
    /\ aborted' = FALSE
    /\ result' = "none"
    /\ inputLastMessage' = Undefined
    /\ Messages' = << >>
    /\ progress' = 0
    /\ batchCount' = 0
    /\ recoveryPoint' = [ID |-> 0, Time |-> MAX_SAFE_INTEGER]
    /\ NoBatchLocals
    /\ hist' = [hist EXCEPT !.why = "none", !.batch = 0,
                    !.pageLen = 0,
                    !.rpBefore = NoItem, !.storeBefore = {},
                    !.trippedAt = "no", !.fetchTripped = FALSE,
                    !.recorded = 0, !.quotaAt = 0, !.lost = FALSE,
                    !.crash =
                        IF @ # "no" THEN "many"
                        ELSE IF pc \in {"queryNext", "refresh"}
                            THEN IF hist.batch = 3
                                    THEN "after3" ELSE "between"
                        ELSE IF pc = "countAfter" THEN "committed"
                        ELSE "other"]
    /\ UNCHANGED << call, plaintext, corpus, ls, db, store >>

Next ==
    \/ \E outcome \in InitOutcomes : \E deleted \in BOOLEAN :
            initialiseDB(outcome, deleted)
    \/ buildDB
    \/ OpenDone
    \/ \E answered \in BOOLEAN : FirstQueryDone(answered)
    \/ CountBefore
    \/ \E i \in 1..PageSize : \E outcome \in TaskOutcomes : TaskDone(i, outcome)
    \/ \E outcome \in TxOutcomes : TxDone(outcome)
    \/ CountAfter
    \/ \E answered \in BOOLEAN : NextQueryDone(answered)
    \/ RefreshDone
    \/ TripToken
    \/ NewToken
    \/ Crash

Spec == Init /\ [][Next]_vars

\* The same program over every mailbox, those with a repeated (Time, Order)
\* pair included.
InitDup == InitWith(Corpora)

SpecDup == InitDup /\ [][Next]_vars

\* A healthy run: initialiseDB succeeds on a fresh profile, the server
\* answers every request, the cipher and the storage work, the token is not
\* tripped and the page is not reloaded.  Every await settles, so each step
\* that is enabled is eventually taken.
NextHealthy ==
    \/ hist.initOutcome = "none" /\ initialiseDB("ok", TRUE)
    \/ buildDB
    \/ OpenDone
    \/ FirstQueryDone(TRUE)
    \/ CountBefore
    \/ \E i \in 1..PageSize : TaskDone(i, "ok")
    \/ TxDone("complete")
    \/ CountAfter
    \/ NextQueryDone(TRUE)
    \/ RefreshDone

SpecHealthy == Init /\ [][NextHealthy]_vars /\ WF_vars(NextHealthy)

\* initialiseDB alone, called on a profile that holds what an earlier
\* indexing left in local storage: any of the items may be there, the
\* Recover item with a checkpoint of the mailbox as it was then, and the
\* database may exist, without rows.
StaleRecoveryPoints == [ID : 1..2, Time : 1..2]

StaleStorage ==
    [Recover : {NoItem} \cup {Stringify(rp) : rp \in StaleRecoveryPoints},
     Event : {NoItem, << "EventID" >>},
     BuildProgress : {NoItem, << MaxTotal >>},
     Key : {NoItem, << "encryptedKey" >>},
     SizeIDB : {NoItem, << 0 >>}]

InitStale ==
    /\ corpus \in {c \in Corpora : c.shape # "dup"}
    /\ ls \in StaleStorage
    /\ db \in {"none", "ready"}
    /\ store = {}
    /\ plaintext = NoRows
    /\ aborted = FALSE
    /\ pc = "idle"
    /\ NoLocals
    /\ result = "none"
    /\ hist = NoHist
    /\ call = NoCall

NextInitialise ==
    \E outcome \in InitOutcomes : \E deleted \in BOOLEAN :
        initialiseDB(outcome, deleted)

SpecInitialise == InitStale /\ [][NextInitialise]_vars

\* ------------------------------------------------------------- getIndexKey
\* What a call of getIndexKey meets: pmcryptoGetMessage reads the stored
\* text as an armored message (armored), getUserKeys resolves with a primary
\* key (keys), decryption and signature verification succeed (decrypts), the
\* decrypted text is JSON (json), crypto.subtle.importKey resolves (imports).
KeyEnvs ==
    [armored : BOOLEAN, keys : BOOLEAN, decrypts : BOOLEAN, json : BOOLEAN,
     imports : BOOLEAN]

\* getIndexKey (lines 774-802): "undefined", "key", or "throws" when the
\* promise it returns is rejected.  Only the rejection of
\* pmcryptoDecryptMessage and of importKey are caught; after the latter,
\* line 799 reads .algorithm of undefined.
getIndexKey(encryptedKey, env) ==
    IF encryptedKey = NoItem THEN "undefined"            \* line 777
    ELSE IF ~env.keys THEN "throws"                      \* lines 781-782, 785
    ELSE IF ~env.armored THEN "throws"                   \* line 784
    ELSE IF ~env.decrypts THEN "undefined"               \* lines 787-791
    ELSE IF ~env.json THEN "throws"                      \* line 796
    ELSE IF ~env.imports THEN "throws"                   \* lines 797, 799
    ELSE "key"                                           \* line 800

GetIndexKeyReturns ==
    /\ call.fn = "getIndexKey"
    /\ call.phase = "called"
    /\ call' = [call EXCEPT !.phase = "returned",
                            !.out = getIndexKey(ls.Key, call.env)]
    /\ UNCHANGED << corpus, ls, db, store, plaintext, aborted, pc,
                    inputLastMessage, Messages, progress, batchCount,
                    numMessagesBefore, task, resultIndex, messagesToStore,
                    counter, recoveryPoint, result, hist >>

\* ---------------------------------------------------- estimateIndexingTime
\* Math.ceil(n / d) of the real quotient, d # 0
CeilDiv(n, d) ==
    IF d > 0 THEN 0 - ((0 - n) \div d) ELSE 0 - (n \div (0 - d))

\* Faulty variant of estimateIndexingTime: the elapsed time is not looked at.
estimateIndexingTimeAnyTime(esProgress, esTotal, endTime, esState) ==
    IF esTotal # 0 /\ esProgress # esState.esPrevProgress
        THEN [estimatedMinutes |->
                CeilDiv((endTime - esState.startTime) * (esTotal - esProgress),
                        (esProgress - esState.esPrevProgress) * MINUTE),
              currentProgressValue |-> CeilDiv(esProgress * 100, esTotal)]
        ELSE [estimatedMinutes |-> 0, currentProgressValue |-> 0]

\* estimateIndexingTime (lines 1247-1266), in exact arithmetic:
\* ((endTime - startTime) / (esProgress - esPrevProgress)) * remaining / MINUTE
\* is the quotient of (endTime - startTime) * remaining by
\* (esProgress - esPrevProgress) * MINUTE.
estimateIndexingTime(esProgress, esTotal, endTime, esState) ==
    IF /\ esTotal # 0
       /\ endTime # esState.startTime
       /\ esProgress # esState.esPrevProgress
        THEN LET remainingMessages == esTotal - esProgress
             IN  [estimatedMinutes |->
                     CeilDiv((endTime - esState.startTime) * remainingMessages,
                             (esProgress - esState.esPrevProgress) * MINUTE),
                  currentProgressValue |-> CeilDiv(esProgress * 100, esTotal)]
        ELSE [estimatedMinutes |-> 0, currentProgressValue |-> 0]

EstimateIndexingTimeReturns ==
    /\ call.fn = "estimateIndexingTime"
    /\ call.phase = "called"
    /\ call' = [call EXCEPT
                    !.phase = "returned",
                    !.out = estimateIndexingTime(call.esProgress, call.esTotal,
                                                 call.endTime, call.esState)]
    /\ UNCHANGED << corpus, ls, db, store, plaintext, aborted, pc,
                    inputLastMessage, Messages, progress, batchCount,
                    numMessagesBefore, task, resultIndex, messagesToStore,
                    counter, recoveryPoint, result, hist >>

\* ----------------------------------------------- the body fetchMessage keeps
\* A subject is a sequence of characters.  The known translations of the
\* Fw: flag, in lower case (constants.ts).
Chars == {"F", "f", "w", "d", ":"}

localisedForwardFlags == { << "f", "w", ":" >>, << "f", "w", "d", ":" >> }

\* String.prototype.toLocaleLowerCase and String.prototype.slice(0, n)
toLocaleLowerCase(s) == [k \in DOMAIN s |-> IF s[k] = "F" THEN "f" ELSE s[k]]

slice(s, n) == SubSeq(s, 1, Min(n, Len(s)))

\* isMessageForwarded (lines 897-899)
isMessageForwarded(subject) ==
    \E fwFlag \in localisedForwardFlags :
        toLocaleLowerCase(slice(subject, Len(fwFlag))) = fwFlag

\* Faulty variant of removeQuote: the quote is removed from the messages
\* that are neither sent nor forwarded.
removeQuoteUnlessSentOrForwarded(message) ==
    ~("2" \in message.LabelIDs) /\ ~isMessageForwarded(message.Subject)

\* line 930
removeQuote(message) ==
    "2" \in message.LabelIDs \/ ~isMessageForwarded(message.Subject)

\* cleanText (lines 807-828).  A body is the set of the kinds of content it
\* holds: text, style elements, a blockquote.  Every style element is
\* removed; locateBlockquote yields the content without the blockquote.
Parts == {"text", "style", "blockquote"}

cleanText(text, removeQuoteFlag) ==
    LET content == text \ {"style"}
    IN  IF removeQuoteFlag THEN content \ {"blockquote"} ELSE content

\* line 934: the decryptedBody of the CachedMessage
decryptedBodyOf(message, decryptedBody) ==
    IF decryptedBody # Undefined
        THEN << cleanText(decryptedBody[1], removeQuote(message)) >>
        ELSE Undefined

FetchMessageReturns ==
    /\ call.fn = "fetchMessage"
    /\ call.phase = "called"
    /\ call' = [call EXCEPT
                    !.phase = "returned",
                    !.out = decryptedBodyOf(call.message, call.decryptedBody)]
    /\ UNCHANGED << corpus, ls, db, store, plaintext, aborted, pc,
                    inputLastMessage, Messages, progress, batchCount,
                    numMessagesBefore, task, resultIndex, messagesToStore,
                    counter, recoveryPoint, result, hist >>

\* The calls of the functions, over every input within the bounds.  The
\* times are samples of one clock that does not run backwards: endTime is
\* taken after esState.startTime.
Times == {k * TimeStep : k \in 0..MaxTicks}

GetIndexKeyCalls ==
    [fn : {"getIndexKey"}, phase : {"called"}, env : KeyEnvs, out : {"none"}]

EstimateIndexingTimeCalls ==
    {c \in [fn : {"estimateIndexingTime"}, phase : {"called"},
            esProgress : 0..MaxProgress, esTotal : 0..MaxProgress,
            endTime : Times,
            esState : [startTime : Times, esPrevProgress : 0..MaxProgress],
            out : {[estimatedMinutes |-> 0, currentProgressValue |-> 0]}] :
        c.endTime >= c.esState.startTime}

Subjects == UNION {[1..n -> Chars] : n \in 0..MaxSubject}

FetchMessageCalls ==
    [fn : {"fetchMessage"}, phase : {"called"},
     message : [LabelIDs : SUBSET {"0", "2"}, Subject : Subjects],
     decryptedBody : {Undefined} \cup {<< b >> : b \in SUBSET Parts},
     out : {Undefined}]

InitCalls ==
    /\ corpus = [Total |-> 0, shape |-> "plain"]
    /\ ls \in {NoStorage, [NoStorage EXCEPT !.Key = << "encryptedKey" >>]}
    /\ db = "none"
    /\ store = {}
    /\ plaintext = NoRows
    /\ aborted = FALSE
    /\ pc = "idle"
    /\ NoLocals
    /\ result = "none"
    /\ hist = NoHist
    /\ call \in GetIndexKeyCalls \cup EstimateIndexingTimeCalls
                \cup FetchMessageCalls

NextCalls ==
    \/ GetIndexKeyReturns
    \/ EstimateIndexingTimeReturns
    \/ FetchMessageReturns

SpecCalls == InitCalls /\ [][NextCalls]_vars

\* ------------------------------------------------------------------- pull
\* The payment-token poller of
\* src/packages/components/containers/payments/useCard.ts (lines 74-117).
\* A call is at the entry of an invocation of pull ("entered"), awaits the
\* status request ("requesting") or the delay ("waiting"), or has settled
\* ("resolved", "rejected").  requests counts the status requests sent.
Statuses ==
    {"STATUS_PENDING", "STATUS_CHARGEABLE", "STATUS_FAILED",
     "STATUS_CONSUMED", "STATUS_NOT_SUPPORTED", "other"}

\* what the awaited api call yields: a status, or a rejection
Responses == Statuses \cup {"rejects"}

\* Faulty variant of pullTimedOut: one more delay is allowed.
pullTimedOutLate(timer) == timer > DELAY_PULLING * 31

\* line 89
pullTimedOut(timer) == timer > DELAY_PULLING * 30

PullSettled == call.phase \in {"resolved", "rejected"}

PullUnchanged ==
    UNCHANGED << corpus, ls, db, store, plaintext, aborted, pc,
                 inputLastMessage, Messages, progress, batchCount,
                 numMessagesBefore, task, resultIndex, messagesToStore,
                 counter, recoveryPoint, result, hist >>

\* lines 85-93: the checks at the entry of pull, then the status request
PullEnter ==
    /\ call.fn = "pull"
    /\ call.phase = "entered"
    /\ call' = IF call.signalAborted
                  THEN [call EXCEPT !.phase = "rejected",
                                    !.error = "Process aborted"]
               ELSE IF pullTimedOut(call.timer)
                  THEN [call EXCEPT !.phase = "rejected",
                                    !.error = "Payment process canceled"]
               ELSE [call EXCEPT !.phase = "requesting",
                                 !.requests = @ + 1]
    /\ PullUnchanged

\* lines 93-116: the status request settles
PullStatus(response) ==
    /\ call.fn = "pull"
    /\ call.phase = "requesting"
    /\ call' =
        CASE response = "rejects" ->
                [call EXCEPT !.phase = "rejected", !.error = "api"]
          [] response = "STATUS_FAILED" ->
                [call EXCEPT !.phase = "rejected", !.Status = response,
                             !.error = "Payment process failed"]
          [] response = "STATUS_CONSUMED" ->
                [call EXCEPT !.phase = "rejected", !.Status = response,
                             !.error = "Payment process consumed"]
          [] response = "STATUS_NOT_SUPPORTED" ->
                [call EXCEPT !.phase = "rejected", !.Status = response,
                             !.error = "Payment process not supported"]
          [] response = "STATUS_CHARGEABLE" ->
                [call EXCEPT !.phase = "resolved", !.Status = response]
          [] response = "STATUS_PENDING" ->
                [call EXCEPT !.phase = "waiting", !.Status = response]
          [] OTHER ->
                [call EXCEPT !.phase = "rejected", !.Status = response,
                             !.error = "Unknown payment token status"]
    /\ PullUnchanged

\* lines 112-113: wait(DELAY_PULLING) resolved; pull calls itself
PullWaited ==
    /\ call.fn = "pull"
    /\ call.phase = "waiting"
    /\ call' = [call EXCEPT !.phase = "entered",
                            !.timer = @ + DELAY_PULLING]
    /\ PullUnchanged

\* the caller aborts the signal, at any await
SignalAbort ==
    /\ call.fn = "pull"
    /\ call.phase \in {"requesting", "waiting"}
    /\ ~call.signalAborted
    /\ call' = [call EXCEPT !.signalAborted = TRUE]
    /\ PullUnchanged

\* pull({ Token, api, signal }) of line 185: timer takes its default, 0
InitPull ==
    /\ corpus = [Total |-> 0, shape |-> "plain"]
    /\ ls = NoStorage
    /\ db = "none"
    /\ store = {}
    /\ plaintext = NoRows
    /\ aborted = FALSE
    /\ pc = "idle"
    /\ NoLocals
    /\ result = "none"
    /\ hist = NoHist
    /\ call \in [fn : {"pull"}, phase : {"entered"}, timer : {0},
                 signalAborted : BOOLEAN, requests : {0},
                 Status : {"none"}, error : {"none"}]

PullStep ==
    \/ PullEnter
    \/ \E response \in Responses : PullStatus(response)
    \/ PullWaited

NextPull ==
    \/ PullStep
    \/ SignalAbort

\* Every await of pull settles: the api call answers or rejects, the delay
\* elapses.
SpecPull == InitPull /\ [][NextPull]_vars /\ WF_vars(PullStep)

TypeOK ==
    /\ corpus \in Corpora
    /\ db \in {"none", "ready"}
    /\ store \subseteq IDs
    /\ DOMAIN plaintext = store
    /\ aborted \in BOOLEAN
    /\ pc \in {"idle", "open", "query", "count", "queue", "tx", "countAfter",
               "queryNext", "refresh", "done"}
    /\ result \in {"none", "true", "false"}

\* =================================================================== claims
Ceil(a, b) == (a + b - 1) \div b

\* the messages a query from the recovery point rp no longer returns: rp's
\* own message and every newer one
NotOlder(rp) == IDs \ Eligible(CursorOf(<< rp >>))

\* C1: whenever buildDB has returned without a quota stop, the rows of the
\* store are exactly the messages on the newer side of the persisted
\* RecoveryPoint (the recovery point being the oldest message stored, its own
\* row is counted with them), or all messages when the run completed and the
\* RecoveryPoint was cleared.
ES_C1_RowsMatchRecoveryPoint ==
    (pc = "done" /\ hist.why # "quota") =>
        /\ ls.Recover # NoItem => store = NotOlder(Parse(ls.Recover))
        /\ (ls.Recover = NoItem /\ result = "true") => store = IDs

\* C2: a healthy run over a finite mailbox terminates with true after
\* ceil(total / pageSize) batches, the RecoveryPoint removed and one row per
\* message in the store.
ES_C2_HealthyRunCompletes ==
    <>[](/\ pc = "done"
         /\ result = "true"
         /\ hist.batch = Ceil(corpus.Total, PageSize)
         /\ ls.Recover = NoItem
         /\ store = IDs)

\* C2 witness: a mailbox of several pages, the last one partial, indexed to
\* the end (the analogue of total = 250, page size = 100).
ES_C2_Witness ==
    /\ pc = "done"
    /\ result = "true"
    /\ corpus.Total > 2 * PageSize
    /\ corpus.Total % PageSize # 0
    /\ hist.batch = Ceil(corpus.Total, PageSize)
    /\ Cardinality(store) = corpus.Total

\* C3: a run reloaded between the checkpoint of batch 3 and the start of
\* batch 4, followed by a second run, ends with the rows of an uninterrupted
\* run: one row per message of the mailbox.
ES_C3_ResumeAfterBatch3 ==
    (/\ pc = "done"
     /\ hist.crash = "after3"
     /\ hist.runs = 2
     /\ ~hist.faults /\ ~hist.cancelled /\ hist.trippedAt = "no") =>
        /\ result = "true"
        /\ store = IDs
        /\ ls.Recover = NoItem

ES_C3_Witness ==
    /\ pc = "done"
    /\ hist.crash = "after3"
    /\ hist.runs = 2
    /\ ~hist.faults /\ ~hist.cancelled /\ hist.trippedAt = "no"
    /\ result = "true"
    /\ Cardinality(store) = corpus.Total
    /\ corpus.Total > 3 * PageSize

\* C4: after a reload at any point of a run, the following buildDB call runs
\* to completion with every message stored exactly once.
ES_C4_ResumeAfterAnyCrash ==
    (/\ pc = "done"
     /\ hist.crash \in {"after3", "between", "committed", "other"}
     /\ hist.runs = 2
     /\ ~hist.faults /\ ~hist.cancelled /\ hist.trippedAt = "no") =>
        /\ result = "true"
        /\ store = IDs

\* C5: the token tripped while a batch is processed: buildDB returns false and
\* the Recover item is what it was when the batch started.
ES_C5_CancelKeepsCheckpoint ==
    (pc = "done" /\ hist.trippedAt = "batch") =>
        /\ result = "false"
        /\ ls.Recover = hist.rpBefore

ES_C5_Witness ==
    /\ pc = "done"
    /\ hist.trippedAt = "batch"
    /\ hist.batch = 2
    /\ result = "false"
    /\ ls.Recover = hist.rpBefore
    /\ ls.Recover # NoItem

\* C6: after a run that returned false on the tripped token, a later call
\* with a fresh token, a healthy server and no quota error returns true with
\* all messages stored.
ES_C6_CancelledRunResumes ==
    (/\ pc = "done"
     /\ hist.cancelled
     /\ hist.runs = 2
     /\ ~hist.faults /\ hist.crash = "no" /\ hist.trippedAt = "no") =>
        /\ result = "true"
        /\ store = IDs

\* C7: no queryMessage call and no queryMessagesMetadata call for a next page
\* is made once the token is tripped.
ES_C7_NoRequestAfterAbort == ~hist.netAfterAbort

\* C7 witness: the token is tripped while messages of the page are still
\* waiting in the queue; the run ends with them never asked for.
ES_C7_Witness ==
    /\ pc = "done"
    /\ hist.why = "aborted"
    /\ hist.trippedAt = "batch"
    /\ hist.pageLen > ES_MAX_CONCURRENT
    /\ store = hist.storeBefore

\* C8 as claimed: a quota error on batch K makes buildDB return true with the
\* RecoveryPoint removed and no row of batch K or of a later batch.
ES_C8_QuotaIsSuccess ==
    (pc = "done" /\ hist.quotaAt # 0) =>
        /\ result = "true"
        /\ ls.Recover = NoItem
        /\ store = hist.storeBefore
        /\ hist.batch = hist.quotaAt

\* C8 as amended: the same, unless the token is tripped by the time
\* storeMessages settles; then buildDB returns false and the RecoveryPoint
\* stays as it was before batch K.
ES_C8_QuotaIsSuccessUnlessAborted ==
    (pc = "done" /\ hist.quotaAt # 0) =>
        /\ store = hist.storeBefore
        /\ hist.batch = hist.quotaAt
        /\ IF hist.trippedAt = "no"
              THEN result = "true" /\ ls.Recover = NoItem
              ELSE result = "false" /\ ls.Recover = hist.rpBefore

ES_C8_Witness ==
    /\ pc = "done"
    /\ hist.quotaAt = 2
    /\ hist.trippedAt = "no"
    /\ result = "true"
    /\ ls.Recover = NoItem
    /\ Cardinality(store) = PageSize

\* C9: the checkpoint of a batch is written only when the rows added are as
\* many as the page has messages; a batch whose write added another number of
\* rows fails, buildDB returns false and the checkpoint stays.
ES_C9_RowCountChecked ==
    /\ pc = "queryNext" =>
            Cardinality(store) - Cardinality(hist.storeBefore) = hist.pageLen
    /\ (/\ pc = "done"
        /\ hist.batch > 0
        /\ hist.why # "quota"
        /\ Cardinality(store) - Cardinality(hist.storeBefore) # hist.pageLen) =>
            /\ result = "false"
            /\ ls.Recover = hist.rpBefore

\* C9 witness: a write that added no row for a page of messages (its rows
\* were there already) was caught by the count.
ES_C9_Witness ==
    /\ pc = "done"
    /\ hist.why = "countMismatch"
    /\ hist.pageLen > 0
    /\ store = hist.storeBefore
    /\ result = "false"

\* C10: no two rows share a (Time, Order) pair, and a batch with a record
\* whose pair is held by another record of the batch or by a stored row of
\* another ID fails as a whole, adding no row.
ES_C10_TimeOrderUnique ==
    /\ \A a \in store : \A b \in store : a # b => ~SamePair(a, b)
    /\ (pc = "done" /\ hist.why = "constraintError") =>
            /\ store = hist.storeBefore
            /\ result = "false"

\* C10 witness: the record collides with a row stored by an earlier batch.
ES_C10_Witness ==
    /\ pc = "done"
    /\ hist.why = "constraintError"
    /\ hist.batch > 1
    /\ store # {}
    /\ store = hist.storeBefore

\* C11: a message that cannot be decrypted never aborts indexing.  A run
\* that met no failed request, no storage failure, no cancellation and no
\* reload ends with true and a row for every message; the row of each
\* message that could not be decrypted says decryptionError and has no body;
\* and each batch adds a row per message of its page and moves the
\* checkpoint.
ES_C11_DecryptionFailureTolerated ==
    /\ (/\ pc = "done"
        /\ ~hist.faults /\ hist.crash = "no"
        /\ ~hist.cancelled /\ hist.trippedAt = "no") =>
            /\ result = "true"
            /\ store = IDs
    /\ \A id \in store :
            /\ plaintext[id].decryptionError = Undecryptable(id)
            /\ Undecryptable(id) => plaintext[id].decryptedBody = Undefined
    /\ pc = "queryNext" =>
            /\ Cardinality(store \ hist.storeBefore) = hist.pageLen
            /\ ls.Recover # hist.rpBefore

\* C11 witness: a full page with a message that could not be decrypted has
\* been stored, every message of the page has its row, and the checkpoint
\* has moved.
ES_C11_Witness ==
    /\ pc = "queryNext"
    /\ hist.pageLen = PageSize
    /\ Cardinality(store \ hist.storeBefore) = PageSize
    /\ \E id \in store \ hist.storeBefore :
            /\ plaintext[id].decryptionError
            /\ plaintext[id].decryptedBody = Undefined
    /\ \E id \in store \ hist.storeBefore : ~plaintext[id].decryptionError
    /\ ls.Recover # hist.rpBefore

\* C12: once a message of a batch could not be retrieved (fetchMessage
\* yielded undefined), the run has ended with buildDB returning false, no
\* row of the batch is in the store and the Recover item is the one from
\* before the batch.
ES_C12_MissingMessageFailsBatch ==
    hist.lost =>
        /\ pc = "done"
        /\ result = "false"
        /\ store = hist.storeBefore
        /\ ls.Recover = hist.rpBefore

\* C12 witness: the message was lost in the second batch, after other
\* messages of the page had been fetched and encrypted.
ES_C12_Witness ==
    /\ hist.lost
    /\ hist.why = "noPlaintext"
    /\ ~aborted
    /\ hist.batch = 2
    /\ result = "false"
    /\ Cardinality(store) = PageSize
    /\ ls.Recover = hist.rpBefore

\* C13: an encryption failure of one record is not fatal: with the token
\* not tripped, a run in which encryptToDB yielded no ciphertext does not
\* end with false on that account.
ES_C13_EncryptionFailureNonFatal ==
    (pc = "done" /\ hist.why = "noCiphertext" /\ hist.trippedAt = "no") =>
        result = "true"

\* C14: batches are processed and checkpointed in sequence.  The page a
\* batch works on is the page that follows the recovery point held by the
\* Recover item, so the checkpoint of the batch before it was written before
\* its fetch and store began; and the one write transaction that is open
\* holds records of the current page only, with no fetch still running.
ES_C14_BatchesInSequence ==
    /\ pc \in {"count", "queue", "tx", "countAfter", "refresh"} =>
            Messages = queryMessagesMetadata(
                           CursorOf(ReadRecoveryPoint(ls.Recover)))
    /\ (pc \in {"count", "queue"} /\ hist.batch > 1) =>
            ls.Recover = Stringify(recoveryPoint)
    /\ pc = "tx" =>
            /\ \A j \in DOMAIN task : task[j] = "done"
            /\ {c.ID : c \in Range(messagesToStore)} = Range(Messages)

\* C14 witness: the third batch is being fetched, the checkpoint of the
\* second one written.
ES_C14_Witness ==
    /\ pc = "queue"
    /\ hist.batch = 3
    /\ ls.Recover = Stringify(recoveryPoint)
    /\ Len(messagesToStore) > 0
    /\ Cardinality(store) = 2 * PageSize

\* C15: a call of initialiseDB that fails returns no indexKey and leaves
\* none of the local state it created: every local-storage item is absent or
\* what it was before the call, and the database, if there was none before
\* the call, is not there after it.  (Between two calls of buildDB the only
\* step that leaves the program idle is a call of initialiseDB.)
ES_C15_FailedInitLeavesNothing ==
    [][(/\ pc = "idle" /\ pc' = "idle"
        /\ hist'.initOutcome \notin {"none", "ok"}) =>
            /\ hist'.initReturned.indexKey = Undefined
            /\ \A item \in DOMAIN ls : ls'[item] \in {NoItem, ls[item]}
            /\ db = "none" => db' = "none"]_vars

\* C16: when the cryptographic primitive is not available for generating the
\* index key, initialiseDB reports notSupported and returns no indexKey.
ES_C16_KeyGenerationNotSupported ==
    hist.initOutcome = "keyGenFails" =>
        /\ hist.initReturned.notSupported
        /\ hist.initReturned.indexKey = Undefined

\* C17: getIndexKey never fails with an error: it returns undefined when
\* no wrapped key is stored, when decryption or verification fails and when
\* anything else goes wrong, and the imported key otherwise.
ES_C17_GetIndexKeyNeverThrows ==
    (call.fn = "getIndexKey" /\ call.phase = "returned") =>
        /\ call.out # "throws"
        /\ call.out = "key" <=>
                /\ ls.Key # NoItem
                /\ \A f \in DOMAIN call.env : call.env[f]

OldestOf(S) == CHOOSE m \in S : \A x \in S \ {m} : Before(x, m)

\* the recovery point of a batch that wrote the rows S
RecoveryPointOf(S) == [ID |-> OldestOf(S), Time |-> TimeOf(OldestOf(S))]

\* C19: after a batch that committed its rows and passed the count, the
\* Recover item holds the recovery point of that batch; buildDB removes the
\* item when it returns true and never when it returns false.
ES_C19_CheckpointWrittenAndCleared ==
    /\ (/\ pc \in {"queryNext", "refresh", "done"}
        /\ result # "true"
        /\ hist.batch > 0
        /\ Cardinality(store \ hist.storeBefore) = hist.pageLen) =>
            ls.Recover = Stringify(RecoveryPointOf(store \ hist.storeBefore))
    /\ (pc = "done" /\ result = "true") => ls.Recover = NoItem
    /\ (pc = "done" /\ result = "false" /\ hist.rpBefore # NoItem) =>
            ls.Recover # NoItem

\* C20: the recovery point storeMessages computes and returns is the ID
\* and the Time of the record with the least (Time, Order) among the
\* records of the batch, in whatever order the fetches completed; it is the
\* one the checkpoint of the batch holds.
ES_C20_RecoveryPointIsMinimum ==
    /\ pc \in {"tx", "countAfter"} =>
            recoveryPoint =
                RecoveryPointOf({c.ID : c \in Range(messagesToStore)})
    /\ pc = "queryNext" =>
            /\ recoveryPoint = RecoveryPointOf(store \ hist.storeBefore)
            /\ ls.Recover = Stringify(recoveryPoint)

\* C20 witness: the fetches completed out of the order of the page, the
\* oldest record is not the last one pushed, and another record of the batch
\* has its Time.
ES_C20_Witness ==
    /\ pc = "countAfter"
    /\ Len(messagesToStore) = PageSize
    /\ messagesToStore[1].ID # Messages[1]
    /\ messagesToStore[PageSize].ID # recoveryPoint.ID
    /\ \E c \in Range(messagesToStore) :
            c.ID # recoveryPoint.ID /\ c.Time = recoveryPoint.Time

\* the recovery point new is the recovery point old, or that of a message
\* the server lists after old's and whose Time is not greater
MovesBackward(old, new) ==
    \/ new = old
    \/ /\ new.Time <= old.Time
       /\ new.ID \in Eligible(CursorOf(<< old >>))
       /\ new.Time = TimeOf(new.ID)

\* C21: between two initialiseDB calls, within a run and from one run to the
\* next, every Recover item written over an earlier one has a Time not
\* greater than the earlier one's and names the same or an older message.
ES_C21_RecoveryPointMovesBackward ==
    [][(/\ ~(pc = "idle" /\ pc' = "idle")
        /\ ls.Recover # NoItem
        /\ ls'.Recover # NoItem) =>
            MovesBackward(Parse(ls.Recover), Parse(ls'.Recover))]_vars

\* a resumed run wrote a checkpoint older than the one it started from
ES_C21_Witness ==
    /\ hist.runs = 2
    /\ hist.crash # "no"
    /\ pc = "queryNext"
    /\ hist.batch = 2
    /\ ls.Recover # hist.rpBefore
    /\ Parse(ls.Recover).Time < Parse(hist.rpBefore).Time

InFlight == {i \in DOMAIN task : task[i] = "running"}

\* C22: while a batch is processed at most ES_MAX_CONCURRENT tasks are in
\* flight; the tasks started are the first resultIndex messages of the page,
\* no message is twice in the page, and a task that was started is never
\* started again.
ES_C22_BoundedConcurrency ==
    /\ [](/\ Cardinality(InFlight) <= ES_MAX_CONCURRENT
          /\ pc = "queue" =>
                /\ DOMAIN task = DOMAIN Messages
                /\ \A i \in DOMAIN task : task[i] = "queued" <=> i > resultIndex
                /\ \A i, j \in DOMAIN Messages :
                        Messages[i] = Messages[j] => i = j)
    /\ [][(pc = "queue" /\ pc' = "queue") =>
            \A i \in DOMAIN task :
                /\ task[i] = "running" => task'[i] \in {"running", "done"}
                /\ task[i] = "done" => task'[i] = "done"]_vars

\* a page larger than the limit: one task settled, the last one was started
\* in its place, and the limit is met
ES_C22_Witness ==
    /\ pc = "queue"
    /\ Len(Messages) > ES_MAX_CONCURRENT
    /\ Cardinality(InFlight) = ES_MAX_CONCURRENT
    /\ resultIndex = Len(Messages)
    /\ \E i \in DOMAIN task : task[i] = "done"

\* the write transaction is open, or was, only with every message of the
\* page ciphered, and no row of a batch is there before it
ES_C23_TransactionAfterAllCiphered ==
    /\ pc \in {"tx", "countAfter"} => Len(messagesToStore) = Len(Messages)
    /\ pc \in {"count", "queue", "tx"} => store = hist.storeBefore
    /\ (pc = "done" /\ hist.why \in {"noPlaintext", "noCiphertext"}) =>
            store = hist.storeBefore

\* C23: the write transaction of a batch is opened only after every message
\* of the page was fetched and ciphered, and a batch during whose fetching
\* and ciphering the token was tripped or a message failed ends with false
\* and with none of its rows written.
ES_C23_BatchAllOrNothing ==
    /\ ES_C23_TransactionAfterAllCiphered
    /\ hist.fetchTripped => store = hist.storeBefore
    /\ (pc = "done" /\ hist.fetchTripped) => result = "false"

\* a fetchMessage call that returned the body of a message with a blockquote
ReturnedWithQuote ==
    /\ call.fn = "fetchMessage"
    /\ call.phase = "returned"
    /\ call.decryptedBody # Undefined
    /\ "blockquote" \in call.decryptedBody[1]

Sent == "2" \in call.message.LabelIDs

Forwarded == isMessageForwarded(call.message.Subject)

QuoteRemoved == "blockquote" \notin call.out[1]

\* C24 as stated: the quote is removed exactly from the messages that are
\* neither sent nor forwarded.
ES_C24_QuoteKeptIfSentOrForwarded ==
    ReturnedWithQuote => (QuoteRemoved <=> (~Sent /\ ~Forwarded))

\* C24, amended: the quote is removed from every sent message and from
\* every other message whose subject does not indicate a forward; it is kept
\* exactly in the forwarded messages that are not sent.  Style elements are
\* removed from every body.
ES_C24_QuoteKeptIfForwardedNotSent ==
    /\ ReturnedWithQuote => (QuoteRemoved <=> (Sent \/ ~Forwarded))
    /\ (call.fn = "fetchMessage" /\ call.phase = "returned") =>
            IF call.decryptedBody = Undefined
                THEN call.out = Undefined
                ELSE /\ "style" \notin call.out[1]
                     /\ call.out[1] \subseteq call.decryptedBody[1]
                     /\ call.decryptedBody[1] \ call.out[1]
                            \subseteq {"style", "blockquote"}

\* a sent message forwarded with a capitalised flag lost its quote
ES_C24_Witness ==
    /\ ReturnedWithQuote
    /\ Sent
    /\ call.message.Subject = << "F", "w", "d", ":" >>
    /\ Forwarded
    /\ QuoteRemoved

\* C25: once initialiseDB has returned an index key, the Recover item is
\* { ID: firstMessage.ID, Time: firstMessage.Time + 1 } when the mailbox
\* holds a message and is absent when it holds none, whatever local storage
\* held before the call.
ES_C25_FirstRecoveryPoint ==
    (pc = "idle" /\ hist.runs = 0 /\ hist.initReturned.indexKey # Undefined) =>
        IF corpus.Total # 0
            THEN ls.Recover =
                    << firstMessage, TimeOf(firstMessage) + 1 >>
            ELSE ls.Recover = NoItem

\* the cursor of the metadata query that is awaited
CursorAwaited ==
    IF pc = "query"
        THEN CursorOf(inputLastMessage)
        ELSE CursorOf(<< recoveryPoint >>)

\* C26: when a metadata query settles, the first of a run or a later one,
\* an undefined result makes buildDB return false with the Recover item as
\* it was, an empty page makes it return true with the Recover item removed
\* (after the refresh, when one is due), and any other page starts a batch.
ES_C26_ExhaustionOrTransientFailure ==
    [][/\ (pc \in {"query", "queryNext"} /\ pc' \notin {pc, "idle"}) =>
            IF hist'.why = "metaFailed"
                THEN /\ pc' = "done"
                     /\ result' = "false"
                     /\ ls'.Recover = ls.Recover
            ELSE IF Eligible(CursorAwaited) = {}
                THEN \/ /\ pc' = "done"
                        /\ result' = "true"
                        /\ ls'.Recover = NoItem
                     \/ pc' = "refresh" /\ Messages' = << >>
            ELSE \/ pc' = "count"
                 \/ pc' = "refresh" /\ Messages' # << >>
       /\ (pc = "refresh" /\ pc' \notin {pc, "idle"}) =>
            IF Messages = << >>
                THEN /\ pc' = "done"
                     /\ result' = "true"
                     /\ ls'.Recover = NoItem
                ELSE pc' = "count"
       /\ (pc = "open" /\ pc' = "done") =>
            /\ result' = "false"
            /\ ls'.Recover = ls.Recover]_vars

\* the query after the second batch yielded undefined: false, and the
\* checkpoint of the second batch is in local storage
ES_C26_Witness ==
    /\ pc = "done"
    /\ hist.why = "metaFailed"
    /\ result = "false"
    /\ hist.batch = 2
    /\ ls.Recover # NoItem
    /\ ls.Recover # hist.rpBefore
    /\ Parse(ls.Recover).ID \in store \ hist.storeBefore

\* C27: when the query that follows a checkpointed batch is answered,
\* refreshOpenpgp is awaited exactly if the batch is the N-th, 2N-th, ...
\* of the run, N = OPENPGP_REFRESH_CUTOFF, with the checkpoint of that
\* batch written and before the next batch starts.
ES_C27_RefreshEveryCutoffBatches ==
    [][(/\ pc = "queryNext"
        /\ pc' \in {"count", "refresh", "done"}
        /\ hist'.why # "metaFailed") =>
            /\ pc' = "refresh" <=> hist.batch % OPENPGP_REFRESH_CUTOFF = 0
            /\ pc' = "refresh" =>
                    /\ ls.Recover = Stringify(recoveryPoint)
                    /\ hist'.batch = hist.batch]_vars

\* what the run does: the refresh comes with every (N + 1)-th batch
ES_C27_RefreshEveryCutoffPlusOne ==
    [][(/\ pc = "queryNext"
        /\ pc' \in {"count", "refresh", "done"}
        /\ hist'.why # "metaFailed") =>
            /\ pc' = "refresh" <=>
                    hist.batch % (OPENPGP_REFRESH_CUTOFF + 1) = 0
            /\ pc' = "refresh" =>
                    /\ ls.Recover = Stringify(recoveryPoint)
                    /\ hist'.batch = hist.batch]_vars

\* the messages of the pages fetched so far in the run
PagesFetched ==
    IF pc \in {"count", "queue", "tx", "countAfter", "refresh"}
        THEN progress + Len(Messages)
        ELSE progress

\* C28: within a buildDB call the values passed to recordProgress start at
\* 1 and each is the one before plus 1; the last value is the number of
\* messages fetched and ciphered in the call, whatever the order in which
\* the tasks settle, and not more than the messages of the pages fetched.
ES_C28_ProgressCountsMessages ==
    /\ [](Running =>
            /\ hist.recorded = progress + Len(messagesToStore)
            /\ hist.recorded <= PagesFetched
            /\ pc = "open" => hist.recorded = 0)
    /\ [][(hist'.recorded # hist.recorded /\ Running') =>
            hist'.recorded = hist.recorded + 1]_vars

\* in the second batch the second task settled before the first
ES_C28_Witness ==
    /\ pc = "queue"
    /\ hist.batch = 2
    /\ Len(task) = PageSize
    /\ task[1] = "running"
    /\ task[2] = "done"
    /\ hist.recorded = PageSize + 1

\* C29: initialiseDB returns notSupported = true exactly when openDB
\* failed, and then without an index key; on every other path, success or
\* failure, notSupported is false.
ES_C29_NotSupportedIffOpenFails ==
    hist.initOutcome # "none" =>
        /\ hist.initReturned.notSupported <=> hist.initOutcome = "openFails"
        /\ hist.initReturned.notSupported =>
                hist.initReturned.indexKey = Undefined
        /\ hist.initReturned.indexKey # Undefined => hist.initOutcome = "ok"

\* openDB failed: notSupported is reported, the markers are removed
ES_C29_Witness ==
    /\ hist.initOutcome = "openFails"
    /\ hist.initReturned.notSupported
    /\ hist.initReturned.indexKey = Undefined
    /\ ls.Recover = NoItem
    /\ ls.Event = NoItem

\* C30: pull settles in every behaviour.  It sends at most 31 status
\* requests; a pending status is followed by the delay and a further
\* invocation with the timer advanced by DELAY_PULLING, and the 32nd
\* invocation rejects with 'Payment process canceled'.  It resolves only on
\* the status chargeable, rejects on an aborted signal and on the statuses
\* failed, consumed, not supported or unknown, and once settled sends
\* nothing more.
ES_C30_PullTerminates ==
    /\ <>PullSettled
    /\ [](/\ call.requests <= 31
          /\ call.phase = "resolved" => call.Status = "STATUS_CHARGEABLE"
          /\ call.phase = "rejected" =>
                CASE call.error = "Process aborted" -> call.signalAborted
                  [] call.error = "Payment process canceled" ->
                        /\ call.requests = 31
                        /\ call.timer = 31 * DELAY_PULLING
                        /\ call.Status = "STATUS_PENDING"
                  [] call.error = "Payment process failed" ->
                        call.Status = "STATUS_FAILED"
                  [] call.error = "Payment process consumed" ->
                        call.Status = "STATUS_CONSUMED"
                  [] call.error = "Payment process not supported" ->
                        call.Status = "STATUS_NOT_SUPPORTED"
                  [] call.error = "Unknown payment token status" ->
                        call.Status = "other"
                  [] OTHER -> call.error = "api"
          /\ call.phase = "waiting" => call.Status = "STATUS_PENDING"
          /\ call.requests * DELAY_PULLING =
                call.timer + (IF call.phase = "entered" THEN 0
                              ELSE IF call.error \in {"Process aborted",
                                        "Payment process canceled"}
                                   THEN 0 ELSE DELAY_PULLING))
    /\ [][/\ PullSettled => call' = call
          /\ call'.requests # call.requests =>
                /\ call'.requests = call.requests + 1
                /\ ~call.signalAborted
                /\ call.requests > 0 => call.Status = "STATUS_PENDING"
          /\ call'.timer # call.timer =>
                /\ call.phase = "waiting"
                /\ call'.timer = call.timer + DELAY_PULLING]_vars

\* the status stayed pending for 31 requests and pull gave up
ES_C30_Witness ==
    /\ call.fn = "pull"
    /\ call.phase = "rejected"
    /\ call.error = "Payment process canceled"
    /\ call.requests = 31
    /\ ~call.signalAborted

====
